---- MODULE Spec2Model ----
(***************************************************************************)
(* Retrieval subsystem of the Stanford ETL transcript chatbot:             *)
(*   - VectorStore.chunk_text            (src/vector_store.py)             *)
(*   - VectorStore over a Chroma collection, RAGChatbot orchestration      *)
(*                                        (src/vector_store.py,            *)
(*                                         src/rag_chatbot.py,             *)
(*                                         src/transcript_loader.py)       *)
(*   - SimpleVectorStore, the exact-scan store                             *)
(*                                        (src/simple_vector_store.py)     *)
(* Strings are sequences of one-character strings; Python's 0-based        *)
(* indices are kept in the variables and shifted by one where a sequence   *)
(* is read.                                                                *)
(***************************************************************************)
EXTENDS Integers, Sequences, FiniteSets, TLC

VARIABLES
    \* ---- chunk_text: one call, one loop iteration per step
    text,        \* the argument `text`
    chunk_size,  \* the argument `chunk_size`
    overlap,     \* the argument `overlap`
    start,       \* the local `start`
    chunks,      \* the local `chunks`
    windows,     \* every (start, end) the loop sliced, and whether it appended
    seen,        \* values `start` had at the top of earlier iterations
    cpc,         \* "while" | "return" | "diverged" | "raised"
    \* ---- SimpleVectorStore: one instance and its store directory
    embeddings,       \* self.embeddings
    metadata,         \* self.metadata
    embeddings_file,  \* embeddings.pkl on disk
    metadata_file,    \* metadata.json on disk
    slast,            \* the last call on the store and what it returned
    faults,           \* how many calls have failed so far
    \* ---- RAGChatbot over a VectorStore (a persistent Chroma collection)
    corpus,       \* which directory listing the transcripts directory holds
    collection,   \* the entries of the Chroma collection, in insertion order
    build,        \* the setup_vector_store call in progress, or the last one:
                  \* where it is, its argument, the listing it ran on, whether
                  \* it repeats a forced call (again) or follows a killed one
                  \* (resumed) on that listing
    pending,      \* add_transcripts: all_chunks / all_metadatas / all_ids
    next_i,       \* add_transcripts: the loop variable i of the batch loop
    lastForced,   \* the last completed setup_vector_store(force_rebuild=True)
    rlast,        \* the last call on the chatbot and what it returned
    \* ---- TranscriptLoader on a transcripts directory
    listing,      \* the *.txt files of the directory, in the order glob lists them
    llast         \* the last call on the loader and what it returned

chunkVars == <<text, chunk_size, overlap, start, chunks, windows, seen, cpc>>

storeVars == <<embeddings, metadata, embeddings_file, metadata_file, slast, faults>>

ragVars == <<corpus, collection, build, pending, next_i, lastForced, rlast>>

loaderVars == <<listing, llast>>

vars == <<chunkVars, storeVars, ragVars, loaderVars>>

-----------------------------------------------------------------------------
(* Bounds of the model.                                                    *)

MaxLen == 5          \* longest enumerated text
MaxSize == 4         \* largest enumerated chunk_size
MaxEntries == 2      \* add_texts is not called beyond this many embeddings
MaxK == 2            \* largest n_results asked of a search
MaxFaults == 1       \* failing calls (encode, save) in one behaviour
MaxFiles == 3        \* most files in an enumerated transcripts directory

-----------------------------------------------------------------------------
(* Python strings.                                                         *)

Whitespace == {" ", "\n", "\t"}

SentenceEnd == {".", "!", "?"}

Alphabet == {"a", " ", "."}

\* c repeated n times.
Rep(c, n) == [i \in 1..n |-> c]

Max(a, b) == IF a >= b THEN a ELSE b

Min(a, b) == IF a <= b THEN a ELSE b

\* text[i] can be read: -len <= i < len.
PyInRange(s, i) == -Len(s) <= i /\ i < Len(s)

\* text[i], a negative i counting from the end.
PyAt(s, i) == IF i >= 0 THEN s[i + 1] ELSE s[Len(s) + i + 1]

\* A slice bound as Python clamps it.
PyClamp(s, i) == IF i < 0 THEN Max(Len(s) + i, 0) ELSE Min(i, Len(s))

\* text[a:b]
PySlice(s, a, b) ==
    LET lo == PyClamp(s, a)
        hi == PyClamp(s, b)
    IN  IF lo < hi THEN SubSeq(s, lo + 1, hi) ELSE <<>>

RECURSIVE LStrip(_)
LStrip(s) ==
    IF s # <<>> /\ Head(s) \in Whitespace THEN LStrip(Tail(s)) ELSE s

RECURSIVE RStrip(_)
RStrip(s) ==
    IF s # <<>> /\ s[Len(s)] \in Whitespace
    THEN RStrip(SubSeq(s, 1, Len(s) - 1))
    ELSE s

\* str.strip()
Strip(s) == RStrip(LStrip(s))

-----------------------------------------------------------------------------
(* chunk_text                                                              *)

\* The constant of `end - 100`.
SentenceLookback == 100

\* for i in range(end, search_start, -1): if text[i-1] in '.!?': end = i; break
\* The loop stops at the greatest i of range(end, search_start, -1) at which
\* text[i-1] raises IndexError or is a sentence end.
ScanBack(s, from, search_start, end) ==
    LET stops == {i \in search_start + 1 .. from :
                     ~PyInRange(s, i - 1) \/ PyAt(s, i - 1) \in SentenceEnd}
        i == CHOOSE x \in stops : \A y \in stops : y <= x
    IN  IF stops = {} THEN [end |-> end, raised |-> FALSE]
        ELSE IF ~PyInRange(s, i - 1) THEN [end |-> end, raised |-> TRUE]
        ELSE [end |-> i, raised |-> FALSE]

\* The search for a sentence end taken over the whole window.
WindowEndWholeWindow(s, st, size) ==
    LET end == st + size
    IN  IF end < Len(s)
        THEN ScanBack(s, end, st, end)
        ELSE [end |-> end, raised |-> FALSE]

\* Lines 49-58: the end of the window that starts at st.
WindowEnd(s, st, size) ==
    LET end == st + size
    IN  IF end < Len(s)
        THEN ScanBack(s, end, Max(st, end - SentenceLookback), end)
        ELSE [end |-> end, raised |-> FALSE]

\* Line 64.
NextStart(end, ov) == end - ov

\* The body of the while loop, lines 49-64, for the window that starts at st.
ChunkBody(s, st, size, ov) ==
    LET w == WindowEnd(s, st, size)
    IN  [raised |-> w.raised,
         end |-> w.end,
         chunk |-> Strip(PySlice(s, st, w.end)),
         next |-> NextStart(w.end, ov)]

\* chunk_text as a function of its arguments: the chunks, and how the call
\* ends.  `start` alone decides every later iteration, so the loop never ends
\* once a value of `start` recurs ("diverged").
RECURSIVE ChunkLoop(_, _, _, _, _, _)
ChunkLoop(s, size, ov, st, acc, visited) ==
    IF st >= Len(s) THEN [chunks |-> acc, status |-> "return"]
    ELSE LET b == ChunkBody(s, st, size, ov)
             acc2 == IF b.chunk # <<>> THEN Append(acc, b.chunk) ELSE acc
         IN  IF b.raised THEN [chunks |-> acc, status |-> "raised"]
             ELSE IF b.next >= Len(s) THEN [chunks |-> acc2, status |-> "return"]
             ELSE IF b.next \in visited \cup {st}
                  THEN [chunks |-> acc2, status |-> "diverged"]
             ELSE ChunkLoop(s, size, ov, b.next, acc2, visited \cup {st})

chunk_text(s, size, ov) == ChunkLoop(s, size, ov, 0, <<>>, {})

TypeChunk ==
    /\ text \in Seq(STRING)
    /\ chunk_size \in Nat /\ overlap \in Nat
    /\ start \in Int
    /\ cpc \in {"while", "return", "diverged", "raised"}

\* One iteration of the while loop, lines 48-66.
chunk_iter ==
    /\ cpc = "while"
    /\ start < Len(text)
    /\ LET b == ChunkBody(text, start, chunk_size, overlap)
       IN  IF b.raised
           THEN /\ cpc' = "raised"
                /\ UNCHANGED <<start, chunks, windows, seen>>
           ELSE /\ chunks' = IF b.chunk # <<>> THEN Append(chunks, b.chunk) ELSE chunks
                /\ windows' = Append(windows,
                                [s |-> start, e |-> b.end, kept |-> b.chunk # <<>>])
                /\ start' = b.next
                /\ seen' = seen \cup {start}
                /\ cpc' = IF b.next >= Len(text) THEN "return"
                          ELSE IF b.next \in seen \cup {start} THEN "diverged"
                          ELSE "while"
    /\ UNCHANGED <<text, chunk_size, overlap>>
    /\ UNCHANGED <<storeVars, ragVars, loaderVars>>

\* The while test fails on entry (the empty text): return chunks.
chunk_exit ==
    /\ cpc = "while"
    /\ start >= Len(text)
    /\ cpc' = "return"
    /\ UNCHANGED <<text, chunk_size, overlap, start, chunks, windows, seen>>
    /\ UNCHANGED <<storeVars, ragVars, loaderVars>>

RECURSIVE SeqsUpTo(_)
SeqsUpTo(n) ==
    IF n = 0 THEN {<<>>}
    ELSE LET shorter == SeqsUpTo(n - 1)
         IN  shorter \cup {Append(t, c) : t \in {u \in shorter : Len(u) = n - 1},
                                          c \in Alphabet}

Texts == SeqsUpTo(MaxLen)

\* chunk_size and overlap positive, overlap < chunk_size.
ParamPairs == {p \in (1..MaxSize) \X (1..MaxSize) : p[2] < p[1]}

CatsText ==
    <<"C","a","t","s"," ","a","r","e"," ","m","a","m","m","a","l","s","."," ",
      "D","o","g","s"," ","a","r","e"," ","m","a","m","m","a","l","s"," ",
      "t","o","o",".">>

\* Texts longer than the 100 characters searched for a sentence end: one
\* whose only sentence end is too far from the right edge of the first window,
\* one whose sentence end is within reach of it.
FarSentenceText == <<"a", ".">> \o Rep("a", 150)

NearSentenceText == Rep("a", 30) \o <<".">> \o Rep("a", 120)

LongInputs == {<<FarSentenceText, 120, 10>>, <<NearSentenceText, 120, 10>>}

ChunkInputs ==
    {<<t, p[1], p[2]>> : t \in Texts, p \in ParamPairs}
        \cup {<<CatsText, 20, 5>>} \cup LongInputs


-----------------------------------------------------------------------------
(* The embedding provider and similarity.                                  *)

\* How many times the character c occurs in s.
Count(s, c) == Cardinality({i \in 1..Len(s) : s[i] = c})

\* self.model.encode: a fixed map from a text to a vector, never the zero
\* vector.  The sentence-transformer is a collaborator; this stands for it.
Encode(t) == <<Count(t, "a") - Count(t, "b"), 1>>

Dot(u, v) == u[1] * v[1] + u[2] * v[2]

\* cosine_similarity(q, e), kept exact as num / sqrt(den).
Cosine(q, e) == [num |-> Dot(q, e), den |-> Dot(q, q) * Dot(e, e)]

\* x < y for two cosines.
SimLess(x, y) ==
    IF x.num < 0 /\ y.num >= 0 THEN TRUE
    ELSE IF x.num >= 0 /\ y.num < 0 THEN FALSE
    ELSE IF x.num >= 0
         THEN x.num * x.num * y.den < y.num * y.num * x.den
         ELSE x.num * x.num * y.den > y.num * y.num * x.den

\* The bijections of 1..n onto itself.
Perms(n) == {p \in [1..n -> 1..n] : \A i, j \in 1..n : i # j => p[i] # p[j]}

\* np.argsort(similarities): the orders that sort ascending.  numpy's default
\* sort promises no order among equal keys, so each such order is an outcome.
ArgSorts(sims) ==
    {p \in Perms(Len(sims)) :
        \A i, j \in 1..Len(sims) : i < j => ~SimLess(sims[p[j]], sims[p[i]])}

\* a[::-1]
Reversed(a) == [i \in 1..Len(a) |-> a[Len(a) + 1 - i]]

\* a[:k], k >= 0
Prefix(a, k) == SubSeq(a, 1, Min(k, Len(a)))

-----------------------------------------------------------------------------
(* SimpleVectorStore                                                       *)

\* A file of the store directory.
Absent == [st |-> "absent"]
Corrupt == [st |-> "corrupt"]
Saved(data) == [st |-> "ok", data |-> data]

\* How one _save_data call ends.  Every failure is caught and printed.
SaveOutcomes ==
    {"saved",            \* both files written
     "emb_open_fails",   \* open(embeddings_file, 'wb') raises
     "emb_dump_fails",   \* pickle.dump raises, the file is left truncated
     "meta_open_fails",  \* embeddings written, open(metadata_file, 'w') raises
     "meta_dump_fails"}  \* embeddings written, json.dump raises part-way

\* _save_data, lines 48-56: the two files after it.
SaveData(outcome, emb, meta, embFile, metaFile) ==
    CASE outcome = "saved" -> <<Saved(emb), Saved(meta)>>
      [] outcome = "emb_open_fails" -> <<embFile, metaFile>>
      [] outcome = "emb_dump_fails" -> <<Corrupt, metaFile>>
      [] outcome = "meta_open_fails" -> <<Saved(emb), metaFile>>
      [] outcome = "meta_dump_fails" -> <<Saved(emb), Corrupt>>

\* _load_data, lines 34-46: <<self.embeddings, self.metadata>> after it.
LoadData(embFile, metaFile) ==
    IF embFile.st # "absent" /\ metaFile.st # "absent"
    THEN IF embFile.st = "ok" /\ metaFile.st = "ok"
         THEN <<embFile.data, metaFile.data>>
         ELSE <<(<<>>), (<<>>)>>
    ELSE <<(<<>>), (<<>>)>>

\* [{"index": i} for i in range(len(texts))]
DefaultMetadata(texts) == [i \in 1..Len(texts) |-> [index |-> i - 1]]

\* metadata[idx].get('content', '')
ContentOf(m) == IF "content" \in DOMAIN m THEN m.content ELSE <<>>

\* {k: v for k, v in metadata[idx].items() if k != 'content'}
WithoutContent(m) == [k \in DOMAIN m \ {"content"} |-> m[k]]

\* search, lines 84-115, for one outcome `order` of argsort.
\* idx is 0-based in the code; order holds 1-based positions.
SearchResult(emb, meta, query, n_results, order) ==
    LET q == Encode(query)
        similarities == [i \in 1..Len(emb) |-> Cosine(q, emb[i])]
        top_indices == Prefix(Reversed(order), n_results)
    IN  IF \E i \in 1..Len(top_indices) : top_indices[i] > Len(meta)
        THEN [raised |-> TRUE, results |-> <<>>]   \* IndexError at self.metadata[idx]
        ELSE [raised |-> FALSE,
              results |-> [i \in 1..Len(top_indices) |->
                 [content |-> ContentOf(meta[top_indices[i]]),
                  metadata |-> WithoutContent(meta[top_indices[i]]),
                  similarity |-> similarities[top_indices[i]]]]]

\* search without its first two lines: sklearn's cosine_similarity raises
\* ValueError on an empty list of vectors.
SearchUnguarded(emb, meta, query, n_results, order) ==
    IF emb = <<>>
    THEN [raised |-> TRUE, results |-> <<>>]
    ELSE SearchResult(emb, meta, query, n_results, order)

\* search: `if not self.embeddings: return []`, then the scan.
Search(emb, meta, query, n_results, order) ==
    IF emb = <<>>
    THEN [raised |-> FALSE, results |-> <<>>]
    ELSE SearchResult(emb, meta, query, n_results, order)

\* The arguments enumerated for add_texts.
TextPool == {<<"a">>, <<"b">>}

QueryPool == {<<"a">>, <<"b">>}

TextLists == UNION {[1..n -> TextPool] : n \in 0..MaxEntries}

MetadataKinds == {"none", "full", "short"}

StoreTitle == <<"A">>

\* The metadatas argument: None, one dict per text, or one dict too few.
MetadatasArg(kind, texts) ==
    IF kind = "none" THEN <<>>
    ELSE IF kind = "full"
    THEN [i \in 1..Len(texts) |-> [title |-> StoreTitle, content |-> texts[i]]]
    ELSE [i \in 1..Len(texts) - 1 |-> [title |-> StoreTitle, content |-> texts[i]]]

\* add_texts, lines 58-82.  `if metadatas:` is false for None and for [].
\* slast.failed: the call raised (encode) or its save failed (caught, printed).
add_texts ==
    \E texts \in TextLists, kind \in MetadataKinds,
       outcome \in SaveOutcomes \cup {"encode_raises"} :
        /\ Len(embeddings) + Len(texts) <= MaxEntries
        /\ kind = "short" => Len(texts) >= 2   \* [] is None to `if metadatas:`
        /\ outcome # "saved" => faults < MaxFaults
        /\ faults' = IF outcome # "saved" THEN faults + 1 ELSE faults
        /\ IF texts = <<>>
           THEN /\ outcome = "saved"
                /\ UNCHANGED <<embeddings, metadata, embeddings_file, metadata_file>>
                /\ slast' = [op |-> "add", failed |-> FALSE]
           ELSE IF outcome = "encode_raises"
           THEN /\ UNCHANGED <<embeddings, metadata, embeddings_file, metadata_file>>
                /\ slast' = [op |-> "add", failed |-> TRUE]
           ELSE LET metadatas == MetadatasArg(kind, texts)
                    emb == embeddings \o [i \in 1..Len(texts) |-> Encode(texts[i])]
                    meta == metadata \o (IF metadatas # <<>> THEN metadatas
                                         ELSE DefaultMetadata(texts))
                    files == SaveData(outcome, emb, meta, embeddings_file, metadata_file)
                IN  /\ embeddings' = emb
                    /\ metadata' = meta
                    /\ embeddings_file' = files[1]
                    /\ metadata_file' = files[2]
                    /\ slast' = [op |-> "add", failed |-> outcome # "saved"]
    /\ UNCHANGED <<chunkVars, ragVars, loaderVars>>

\* search(query, n_results), n_results >= 1.
search ==
    \E query \in QueryPool, n_results \in 1..MaxK :
      \E order \in ArgSorts([i \in 1..Len(embeddings) |->
                                Cosine(Encode(query), embeddings[i])]) :
        /\ slast' = [op |-> "search", query |-> query, n_results |-> n_results,
                     ranked |-> Prefix(Reversed(order), n_results),
                     out |-> Search(embeddings, metadata, query, n_results, order)]
        /\ UNCHANGED <<embeddings, metadata, embeddings_file, metadata_file, faults>>
    /\ UNCHANGED <<chunkVars, ragVars, loaderVars>>

\* clear_collection that empties the two lists and leaves the files.
ClearMemoryOnly ==
    /\ embeddings' = <<>>
    /\ metadata' = <<>>
    /\ slast' = [op |-> "clear", count |-> Len(embeddings)]
    /\ UNCHANGED <<embeddings_file, metadata_file, faults>>
    /\ UNCHANGED <<chunkVars, ragVars, loaderVars>>

\* clear_collection, lines 117-125.
store_clear_collection ==
    /\ embeddings' = <<>>
    /\ metadata' = <<>>
    /\ embeddings_file' = Absent
    /\ metadata_file' = Absent
    /\ slast' = [op |-> "clear", count |-> Len(embeddings)]
    /\ UNCHANGED faults
    /\ UNCHANGED <<chunkVars, ragVars, loaderVars>>

\* The process ends and a new SimpleVectorStore is built on the same
\* directory: __init__, lines 12-32.
store_restart ==
    /\ LET loaded == LoadData(embeddings_file, metadata_file)
       IN  /\ embeddings' = loaded[1]
           /\ metadata' = loaded[2]
    /\ slast' = [op |-> "init"]
    /\ UNCHANGED <<embeddings_file, metadata_file, faults>>
    /\ UNCHANGED <<chunkVars, ragVars, loaderVars>>

-----------------------------------------------------------------------------
(* TranscriptLoader                                                        *)

Digits == <<"0", "1", "2", "3", "4", "5", "6", "7", "8", "9">>

\* str(n), n >= 0: what an f-string writes for an int.
RECURSIVE Str(_)
Str(n) ==
    IF n < 10 THEN <<Digits[n + 1]>>
    ELSE Append(Str(n \div 10), Digits[(n % 10) + 1])

\* len(s.split()): the maximal runs of non-whitespace.
WordCount(s) ==
    Cardinality({i \in 1..Len(s) :
        s[i] \notin Whitespace /\ (i = Len(s) \/ s[i + 1] \in Whitespace)})

\* A *.txt file of the transcripts directory: its stem, its text, and whether
\* open/read succeed.
File(title, raw, readable) == [title |-> title, raw |-> raw, readable |-> readable]

\* load_transcript, lines 23-49, for a file that can be read.
load_transcript(f) ==
    LET content == Strip(f.raw)
    IN  [title |-> f.title,
         content |-> content,
         file_size |-> Len(content),
         word_count |-> WordCount(content)]

Readable(f) == f.readable

\* load_all_transcripts that gives up at the first file that fails to load.
LoadUntilFailure(files) ==
    LET bad == {i \in 1..Len(files) : ~files[i].readable}
        stop == IF bad = {} THEN Len(files)
                ELSE (CHOOSE i \in bad : \A j \in bad : i <= j) - 1
    IN  [i \in 1..stop |-> load_transcript(files[i])]

\* load_all_transcripts, lines 51-70: a file whose load returns None is skipped.
load_all_transcripts(files) ==
    LET ok == SelectSeq(files, Readable)
    IN  [i \in 1..Len(ok) |-> load_transcript(ok[i])]

\* sum(t[field] for t in transcripts)
RECURSIVE SumOf(_, _)
SumOf(transcripts, field) ==
    IF transcripts = <<>> THEN 0
    ELSE Head(transcripts)[field] + SumOf(Tail(transcripts), field)

\* get_transcript_summary, lines 79-93, from the loaded transcripts.  The
\* quotient total_words / len(transcripts) is kept as its two terms.
TranscriptSummary(transcripts) ==
    IF transcripts = <<>>
    THEN [raised |-> FALSE, out |-> [error |-> "No transcripts found"]]
    ELSE [raised |-> FALSE,
          out |-> [total_transcripts |-> Len(transcripts),
                   total_words |-> SumOf(transcripts, "word_count"),
                   total_size |-> SumOf(transcripts, "file_size"),
                   average_words_per_transcript |->
                       [num |-> SumOf(transcripts, "word_count"),
                        den |-> Len(transcripts)],
                   transcript_titles |->
                       [i \in 1..Len(transcripts) |-> transcripts[i].title]]]

\* The directories enumerated for the loader: up to MaxFiles files with
\* different stems, each readable or not.
FileTitles == {<<"T">> \o Str(i) : i \in 1..MaxFiles}

RawPool == {<<" ", "a", " ", "b", ".", "\n">>, <<" ", "\n">>}

Files == {File(t, r, b) : t \in FileTitles, r \in RawPool, b \in BOOLEAN}

Listings ==
    UNION {{l \in [1..n -> Files] :
               \A i, j \in 1..n : i # j => l[i].title # l[j].title} :
           n \in 0..MaxFiles}

\* A call of load_all_transcripts().
call_load_all_transcripts ==
    /\ llast' = [op |-> "load_all", raised |-> FALSE,
                 out |-> load_all_transcripts(listing)]
    /\ UNCHANGED listing
    /\ UNCHANGED <<chunkVars, storeVars, ragVars>>

\* A call of get_transcript_summary(), lines 72-93.
get_transcript_summary ==
    /\ LET r == TranscriptSummary(load_all_transcripts(listing))
       IN  llast' = [op |-> "summary", raised |-> r.raised, out |-> r.out]
    /\ UNCHANGED listing
    /\ UNCHANGED <<chunkVars, storeVars, ragVars>>

-----------------------------------------------------------------------------
(* VectorStore: add_transcripts, search, clear_collection                  *)

\* The defaults of chunk_text, which add_transcripts calls with.
DefaultChunkSize == 1000
DefaultOverlap == 200

\* chunk_id = f"{title}_{i}"
ChunkIdNoTitle(title, i) == <<"_">> \o Str(i)

chunk_id(title, i) == title \o <<"_">> \o Str(i)

\* Lines 83-100 for one transcript: its chunks, metadatas and ids.
TranscriptEntries(t) ==
    LET ch == chunk_text(t.content, DefaultChunkSize, DefaultOverlap).chunks
    IN  [i \in 1..Len(ch) |->
           [id |-> chunk_id(t.title, i - 1),
            document |-> ch[i],
            metadata |-> [title |-> t.title,
                          chunk_index |-> i - 1,
                          total_chunks |-> Len(ch),
                          word_count |-> WordCount(ch[i])]]]

\* The lists of transcripts lo..hi, one after the other.
RECURSIVE EntriesOf(_, _, _)
EntriesOf(transcripts, lo, hi) ==
    IF lo > hi THEN <<>>
    ELSE IF lo = hi THEN TranscriptEntries(transcripts[lo])
    ELSE LET mid == (lo + hi) \div 2
         IN  EntriesOf(transcripts, lo, mid) \o EntriesOf(transcripts, mid + 1, hi)

\* Lines 79-100: all_chunks, all_metadatas and all_ids, position by position.
AllEntries(transcripts) == EntriesOf(transcripts, 1, Len(transcripts))

\* chunk_text never returns for one of the transcripts.
ChunkingHangs(transcripts) ==
    \E i \in 1..Len(transcripts) :
        chunk_text(transcripts[i].content, DefaultChunkSize, DefaultOverlap).status
            # "return"

batch_size == 100

\* all_chunks[i:i+batch_size] and its metadatas and ids.
Batch(entries, i) == SubSeq(entries, i + 1, Min(i + batch_size, Len(entries)))

\* Squared L2, the distance of a Chroma collection's default space.
Distance(q, e) == (q[1] - e[1]) * (q[1] - e[1]) + (q[2] - e[2]) * (q[2] - e[2])

Ids(entries) == {entries[i].id : i \in 1..Len(entries)}

\* self.collection.add(documents, metadatas, ids): Chroma embeds each document
\* and stores the batch as a whole; it rejects a batch that repeats an id, and
\* ignores an entry whose id the collection already holds.
ChromaAdd(coll, batch) ==
    LET Fresh(e) == e.id \notin Ids(coll)
        Embedded(e) == [id |-> e.id, document |-> e.document,
                        metadata |-> e.metadata, embedding |-> Encode(e.document)]
        fresh == SelectSeq(batch, Fresh)
    IN  IF Cardinality(Ids(batch)) # Len(batch)
        THEN [raised |-> TRUE, collection |-> coll]
        ELSE [raised |-> FALSE,
              collection |-> coll \o [i \in 1..Len(fresh) |-> Embedded(fresh[i])]]

\* The entries of S nearest to the query.
Nearest(dist, S) ==
    LET ds == {dist[i] : i \in S}
        least == CHOOSE m \in ds : \A d \in ds : m <= d
    IN  {i \in S : dist[i] = least}

\* self.collection.query(query_texts=[query], n_results=k): the orders in
\* which Chroma may return the min(k, count) nearest entries (equal distances
\* in either order).
RECURSIVE RankingsOf(_, _, _)
RankingsOf(dist, S, k) ==
    IF k = 0 \/ S = {} THEN {<<>>}
    ELSE UNION {{<<i>> \o r : r \in RankingsOf(dist, S \ {i}, k - 1)} :
                   i \in Nearest(dist, S)}

Rankings(coll, query, k) ==
    LET q == Encode(query)
        dist == [i \in 1..Len(coll) |-> Distance(q, coll[i].embedding)]
    IN  RankingsOf(dist, 1..Len(coll), k)

\* search, lines 119-145, for one answer `ranking` of the collection.
VectorSearch(coll, query, ranking) ==
    [i \in 1..Len(ranking) |->
        [content |-> coll[ranking[i]].document,
         metadata |-> coll[ranking[i]].metadata,
         distance |-> Distance(Encode(query), coll[ranking[i]].embedding)]]

\* clear_collection that leaves the collection as it is.
ClearKeepsEntries(coll) == coll

\* clear_collection, lines 162-168: delete the collection and create it anew.
clear_collection(coll) == <<>>

\* get_collection_info()["total_chunks"]
TotalChunks(coll) == Len(coll)

-----------------------------------------------------------------------------
(* RAGChatbot: setup_vector_store, get_relevant_context                    *)

\* setup_vector_store that never takes the early return.
SetupEntryNeverSkips(coll, force) ==
    [collection |-> IF force THEN clear_collection(coll) ELSE coll,
     skip |-> FALSE]

\* setup_vector_store that reads total_chunks before it clears and returns
\* early on it.
SetupEntryStaleCount(coll, force) ==
    [collection |-> IF force THEN clear_collection(coll) ELSE coll,
     skip |-> TotalChunks(coll) > 0]

\* setup_vector_store, lines 55-62: the collection after the optional clear,
\* and whether the call returns early.
SetupEntry(coll, force) ==
    LET cleared == IF force THEN clear_collection(coll) ELSE coll
    IN  [collection |-> cleared,
         skip |-> TotalChunks(cleared) > 0 /\ ~force]

NoContext == <<"N", "o", " ", "r", "e", "l", "e", "v", "a", "n", "t", " ", "c", "o", "n", "t", "e", "x", "t", " ", "f", "o", "u", "n", "d", ".">>

\* "\n".join(parts)
RECURSIVE Join(_, _)
Join(parts, sep) ==
    IF parts = <<>> THEN <<>>
    ELSE IF Len(parts) = 1 THEN parts[1]
    ELSE parts[1] \o sep \o Join(Tail(parts), sep)

\* f"Source {i} (from '{title}'):\n{content}\n"
ContextPart(i, result) ==
    <<"S", "o", "u", "r", "c", "e", " ">> \o Str(i) \o <<" ", "(", "f", "r", "o", "m", " ", "'">> \o result.metadata.title
        \o <<"'", ")", ":", "\n">> \o result.content \o <<"\n">>

\* get_relevant_context that formats the first result only.
JoinedContextFirstOnly(results) ==
    [raised |-> FALSE, out |-> ContextPart(1, results[1])]

\* Lines 87-95: the parts joined; metadata['title'] raises KeyError on a
\* result without a title.
JoinedContext(results) ==
    IF \E i \in 1..Len(results) : "title" \notin DOMAIN results[i].metadata
    THEN [raised |-> TRUE, out |-> <<>>]
    ELSE [raised |-> FALSE,
          out |-> Join([i \in 1..Len(results) |-> ContextPart(i, results[i])],
                       <<"\n">>)]

\* get_relevant_context without the test of line 84.
ContextNoSentinel(results) == JoinedContext(results)

\* get_relevant_context, lines 82-95, from the results of the search.
GetRelevantContext(results) ==
    IF results = <<>> THEN [raised |-> FALSE, out |-> NoContext]
    ELSE JoinedContext(results)

\* The directory listings of the model.
BigFiles == batch_size + 1

Corpora ==
    << <<>>,
       <<File(<<"A">>, CatsText, TRUE)>>,
       <<File(<<"A">>, <<" ", "a", ".", " ", "b", "\n">>, TRUE),
         File(<<"B">>, <<"b", "b">>, FALSE),
         File(<<"A", "_", "0">>, <<"b">>, TRUE),
         File(<<"E">>, <<" ", "\n">>, TRUE)>>,
       <<File(<<"L">>, Rep("a", 850), TRUE),
         File(<<"L", "_", "1">>, <<"b", " ", "a">>, TRUE)>>,
       [i \in 1..BigFiles |-> File(<<"T">> \o Str(i), Rep("a", i), TRUE)] >>

\* For each listing, what setup_vector_store computes from it before the
\* first insert: the loaded transcripts, whether chunking them ends, and the
\* lists of add_transcripts.
Loaded ==
    [c \in 1..Len(Corpora) |->
        LET transcripts == load_all_transcripts(Corpora[c])
        IN  [transcripts |-> Len(transcripts),
             hangs |-> ChunkingHangs(transcripts),
             entries |-> AllEntries(transcripts)]]

NoForced == [corpus |-> 0, count |-> 0, keys |-> {}]

Completed(c, coll) == [corpus |-> c, count |-> Len(coll), keys |-> Ids(coll)]

\* setup_vector_store(force_rebuild), lines 48-69, up to the first batch of
\* add_transcripts (the whole call when it adds nothing).
setup_vector_store ==
    \E force \in BOOLEAN :
        /\ build.pc # "adding"
        /\ LET entry == SetupEntry(collection, force)
               loaded == Loaded[corpus]
               again == force /\ lastForced.corpus = corpus
               pc == IF entry.skip THEN "returned"
                     ELSE IF loaded.transcripts = 0 THEN "returned"
                     ELSE IF loaded.hangs THEN "hung"
                     ELSE IF loaded.entries = <<>> THEN "returned"
                     ELSE "adding"
           IN  /\ collection' = entry.collection
               /\ build' = [pc |-> pc, force |-> force, again |-> again,
                            corpus |-> corpus,
                            resumed |-> build.pc = "killed" /\ build.corpus = corpus]
               /\ pending' = IF pc = "adding" THEN loaded.entries ELSE <<>>
               /\ lastForced' = IF force /\ pc = "returned"
                                THEN Completed(corpus, entry.collection)
                                ELSE lastForced
               /\ rlast' = [op |-> "setup",
                            force |-> force,
                            nonempty |-> TotalChunks(collection) > 0,
                            clears |-> IF force THEN 1 ELSE 0,
                            loads |-> IF entry.skip THEN 0 ELSE 1]
        /\ next_i' = 0
        /\ UNCHANGED corpus
    /\ UNCHANGED <<chunkVars, storeVars, loaderVars>>

\* One turn of the batch loop of add_transcripts, lines 104-115; after the
\* last batch setup_vector_store returns.
add_batch ==
    /\ build.pc = "adding"
    /\ LET r == ChromaAdd(collection, Batch(pending, next_i))
           last == next_i + batch_size >= Len(pending)
       IN  IF r.raised
           THEN /\ build' = [build EXCEPT !.pc = "raised"]
                /\ pending' = <<>>
                /\ next_i' = 0
                /\ UNCHANGED <<collection, lastForced>>
           ELSE /\ collection' = r.collection
                /\ build' = [build EXCEPT !.pc = IF last THEN "returned" ELSE "adding"]
                /\ pending' = IF last THEN <<>> ELSE pending
                /\ next_i' = IF last THEN 0 ELSE next_i + batch_size
                /\ lastForced' = IF last /\ build.force
                                 THEN Completed(corpus, r.collection)
                                 ELSE lastForced
    /\ rlast' = [op |-> "add"]
    /\ UNCHANGED corpus
    /\ UNCHANGED <<chunkVars, storeVars, loaderVars>>

\* The process is terminated during add_transcripts; the collection is
\* persistent and keeps the batches added so far.
interrupt ==
    /\ build.pc = "adding"
    /\ build' = [build EXCEPT !.pc = "killed"]
    /\ pending' = <<>>
    /\ next_i' = 0
    /\ rlast' = [op |-> "killed"]
    /\ UNCHANGED <<corpus, collection, lastForced>>
    /\ UNCHANGED <<chunkVars, storeVars, loaderVars>>

\* get_relevant_context(query, n_results), n_results >= 1.
get_relevant_context ==
    /\ build.pc # "adding"
    /\ \E query \in QueryPool, n_results \in 1..MaxK :
         \E ranking \in Rankings(collection, query, n_results) :
            LET results == VectorSearch(collection, query, ranking)
                ctx == GetRelevantContext(results)
            IN  rlast' = [op |-> "context", found |-> Len(results),
                          results |-> results,
                          raised |-> ctx.raised, out |-> ctx.out]
    /\ UNCHANGED <<corpus, collection, build, pending, next_i, lastForced>>
    /\ UNCHANGED <<chunkVars, storeVars, loaderVars>>

\* The transcripts directory is given other files.
edit_sources ==
    /\ build.pc # "adding"
    /\ \E c \in 1..Len(Corpora) : c # corpus /\ corpus' = c
    /\ rlast' = [op |-> "edit"]
    /\ UNCHANGED <<collection, build, pending, next_i, lastForced>>
    /\ UNCHANGED <<chunkVars, storeVars, loaderVars>>

-----------------------------------------------------------------------------
(* Specifications: one per component.                                      *)

\* No chunk_text call in progress.
ChunkIdle ==
    /\ text = <<>>
    /\ chunk_size = 1000
    /\ overlap = 200
    /\ start = 0
    /\ chunks = <<>>
    /\ windows = <<>>
    /\ seen = {}
    /\ cpc = "return"

\* A store built on an empty directory.
StoreIdle ==
    /\ embeddings = <<>>
    /\ metadata = <<>>
    /\ embeddings_file = Absent
    /\ metadata_file = Absent
    /\ slast = [op |-> "init"]
    /\ faults = 0

\* A chatbot on an empty collection, before any call.
RagIdle ==
    /\ collection = <<>>
    /\ build = [pc |-> "idle", force |-> FALSE, again |-> FALSE,
                corpus |-> 0, resumed |-> FALSE]
    /\ pending = <<>>
    /\ next_i = 0
    /\ lastForced = NoForced
    /\ rlast = [op |-> "init"]

\* A loader on an empty directory, before any call.
LoaderIdle ==
    /\ listing = <<>>
    /\ llast = [op |-> "init"]

InitStore == ChunkIdle /\ StoreIdle /\ RagIdle /\ corpus = 1 /\ LoaderIdle

NextStore == add_texts \/ search \/ store_clear_collection \/ store_restart

SpecStore == InitStore /\ [][NextStore]_vars

InitChunk ==
    /\ \E in \in ChunkInputs :
          /\ text = in[1]
          /\ chunk_size = in[2]
          /\ overlap = in[3]
    /\ start = 0
    /\ chunks = <<>>
    /\ windows = <<>>
    /\ seen = {}
    /\ cpc = "while"
    /\ StoreIdle
    /\ RagIdle
    /\ corpus = 1
    /\ LoaderIdle

NextChunk == chunk_iter \/ chunk_exit

SpecChunk == InitChunk /\ [][NextChunk]_vars

\* The chatbot: a new process on an empty collection and any of the listings.
Init ==
    /\ ChunkIdle
    /\ StoreIdle
    /\ RagIdle
    /\ corpus \in 1..Len(Corpora)
    /\ LoaderIdle

Next ==
    \/ setup_vector_store
    \/ add_batch
    \/ interrupt
    \/ get_relevant_context
    \/ edit_sources

Spec == Init /\ [][Next]_vars

\* The loader on any of the enumerated directories.
InitLoader ==
    /\ ChunkIdle
    /\ StoreIdle
    /\ RagIdle
    /\ corpus = 1
    /\ listing \in Listings
    /\ llast = [op |-> "init"]

NextLoader == call_load_all_transcripts \/ get_transcript_summary

SpecLoader == InitLoader /\ [][NextLoader]_vars

-----------------------------------------------------------------------------
(* Claims about chunk_text, under SpecChunk.                               *)

\* The call is over: it returned, or it was found never to return.
ChunkCallOver == cpc # "while"

\* Position p of the text lies in a window whose slice was appended.
InKeptWindow(p) == \E k \in DOMAIN windows :
    windows[k].kept /\ windows[k].s <= p /\ p < windows[k].e

\* C1: a text with len(text) <= chunk_size is returned as the single chunk
\* text.strip(), or as no chunk when text.strip() is empty.
C1_ShortTextOneChunk ==
    (ChunkCallOver /\ Len(text) <= chunk_size) =>
        /\ cpc = "return"
        /\ chunks = IF Strip(text) = <<>> THEN <<>> ELSE <<Strip(text)>>

\* C2: chunk_text returns, and every non-whitespace character of the text
\* lies in a window whose slice is one of the returned chunks.
C2_NoDataLoss ==
    ChunkCallOver =>
        /\ cpc = "return"
        /\ \A p \in 0 .. Len(text) - 1 :
              PyAt(text, p) \notin Whitespace => InKeptWindow(p)

\* What remains of C2 on the calls that return.
C2_ReturnedCallsLoseNothing ==
    cpc = "return" =>
        \A p \in 0 .. Len(text) - 1 :
            PyAt(text, p) \notin Whitespace => InKeptWindow(p)

\* C15: in every chunk_text call the window start is never negative and is
\* greater than at every earlier iteration, so the call returns.
C15_StartStrictlyIncreases ==
    /\ cpc # "diverged"
    /\ start >= 0
    /\ \A s \in seen : s < start

\* The positions of the window that starts at s in which the code looks for a
\* sentence end: its last 100 characters, not before s.
SentenceEnds(s) ==
    {p \in Max(s, s + chunk_size - 100) .. s + chunk_size - 1 :
        p >= 0 /\ p < Len(text) /\ text[p + 1] \in SentenceEnd}

\* The end the claim gives the window that starts at s.
ClaimedEnd(s) ==
    IF s + chunk_size < Len(text) /\ SentenceEnds(s) # {}
    THEN 1 + CHOOSE p \in SentenceEnds(s) : \A q \in SentenceEnds(s) : q <= p
    ELSE s + chunk_size

\* C16: a window whose right edge start + chunk_size is before the end of the
\* text ends just after the last of '.', '!', '?' among its last 100
\* characters, or at start + chunk_size when there is none; a window whose
\* right edge is at or past the end of the text ends at start + chunk_size.
C16_WindowEndsAtSentence ==
    \A k \in DOMAIN windows : windows[k].e = ClaimedEnd(windows[k].s)

\* The first window was cut at a sentence end; the second holds that sentence
\* end, but not among its last 100 characters, and was not cut.
C16_Witness ==
    /\ text = NearSentenceText
    /\ Len(windows) >= 2
    /\ windows[1].e < windows[1].s + chunk_size
    /\ text[windows[1].e] \in SentenceEnd
    /\ windows[2].s < windows[1].e
    /\ windows[2].e = windows[2].s + chunk_size

\* sub occurs in s.
Contains(s, sub) ==
    \E i \in 0 .. Len(s) - Len(sub) : SubSeq(s, i + 1, i + Len(sub)) = sub

Mammals == <<"m", "a", "m", "m", "a", "l", "s">>

\* The titles that search("mammals", 1) may return once the chunks ch of a
\* transcript titled "A" are in an empty collection.
TitlesFound(ch) ==
    LET entries == [i \in 1..Len(ch) |->
                      [id |-> chunk_id(<<"A">>, i - 1), document |-> ch[i],
                       metadata |-> [title |-> <<"A">>, chunk_index |-> i - 1,
                                     total_chunks |-> Len(ch),
                                     word_count |-> WordCount(ch[i])]]]
        coll == ChromaAdd(<<>>, entries).collection
    IN  {[i \in 1..Len(r) |-> VectorSearch(coll, Mammals, r)[i].metadata.title] :
            r \in Rankings(coll, Mammals, 1)}

\* C3: chunk_text("Cats are mammals. Dogs are mammals too.", 20, 5) returns
\* exactly two chunks, both containing "mammals", and once they are added
\* under the title "A" a search for "mammals" with n_results=1 returns one
\* result whose metadata title is "A".
C3_CatsTwoChunks ==
    (text = CatsText /\ chunk_size = 20 /\ overlap = 5 /\ ChunkCallOver) =>
        /\ cpc = "return"
        /\ Len(chunks) = 2
        /\ \A i \in 1..Len(chunks) : Contains(chunks[i], Mammals)
        /\ TitlesFound(chunks) = {<< <<"A">> >>}

-----------------------------------------------------------------------------
(* Claims about TranscriptLoader, under SpecLoader.                        *)

\* C11: get_transcript_summary over a directory from which no transcript
\* loads ends in a failure raised to the caller, not in a returned value.
C11_EmptySummaryRaises ==
    (llast.op = "summary" /\ ~\E i \in 1..Len(listing) : listing[i].readable) =>
        llast.raised

\* The positions of the files of the directory that can be read.
ReadablePositions == {i \in 1..Len(listing) : listing[i].readable}

\* The k-th readable file of the directory, in listing order.
KthReadable(k) ==
    listing[CHOOSE i \in ReadablePositions :
                Cardinality({j \in ReadablePositions : j < i}) = k - 1]

\* C12: load_all_transcripts does not raise; it returns one transcript for
\* each file that loads, in listing order, with the file's stem as title and
\* its stripped text as content, and nothing for a file that fails.
C12_LoadSkipsFailingFiles ==
    llast.op = "load_all" =>
        /\ ~llast.raised
        /\ Len(llast.out) = Cardinality(ReadablePositions)
        /\ \A k \in 1..Len(llast.out) :
              /\ llast.out[k].title = KthReadable(k).title
              /\ llast.out[k].content = Strip(KthReadable(k).raw)

\* load_all_transcripts has returned from a directory in which a file that
\* fails comes before a file that loads.
C12_Witness ==
    /\ llast.op = "load_all"
    /\ \E i, j \in 1..Len(listing) :
          i < j /\ ~listing[i].readable /\ listing[j].readable
    /\ Len(llast.out) >= 1

-----------------------------------------------------------------------------
(* Claims about RAGChatbot and VectorStore, under Spec.                    *)

\* C4: setup_vector_store(force_rebuild=False) on a collection that holds an
\* entry returns at once: it clears nothing, loads nothing, starts no insert
\* and leaves the entries of the collection as they were.
C4_NonForcedSetupIsNoOp ==
    [][(rlast'.op = "setup" /\ ~rlast'.force /\ TotalChunks(collection) > 0) =>
          /\ collection' = collection
          /\ rlast'.clears = 0
          /\ rlast'.loads = 0
          /\ build'.pc = "returned"
          /\ pending' = <<>>]_vars

\* setup_vector_store(False) has just returned on a collection with entries.
C4_Witness ==
    /\ rlast.op = "setup"
    /\ ~rlast.force
    /\ rlast.nonempty
    /\ build.pc = "returned"
    /\ TotalChunks(collection) > 0

\* C5: when a setup_vector_store(force_rebuild=True) call completes over the
\* listing that the last completed forced call was made over, the collection
\* has the same number of entries and the same set of ids as after that call.
C5_ForcedRebuildRepeats ==
    [][(/\ rlast'.op \in {"setup", "add"}
        /\ build'.pc = "returned"
        /\ build'.force
        /\ lastForced.corpus = corpus) =>
          Completed(corpus, collection') = lastForced]_vars

\* A forced rebuild over the listing of the last one has just completed with
\* its last batch.
C5_Witness ==
    /\ rlast.op = "add"
    /\ build.pc = "returned"
    /\ build.force
    /\ build.again
    /\ lastForced = Completed(corpus, collection)
    /\ TotalChunks(collection) > 0

\* C6: in an add_transcripts call, entries that differ in (title, chunk index)
\* have different ids, no id occurs twice in the lists of the call, and no id
\* occurs twice in the collection.
C6_EntryIdsUnique ==
    /\ \A i, j \in DOMAIN pending :
          <<pending[i].metadata.title, pending[i].metadata.chunk_index>>
              # <<pending[j].metadata.title, pending[j].metadata.chunk_index>>
            => pending[i].id # pending[j].id
    /\ Cardinality(Ids(pending)) = Len(pending)
    /\ Cardinality(Ids(collection)) = Len(collection)

\* add_transcripts is adding a transcript of two chunks and another transcript
\* whose title reads like an id of the first.
C6_Witness ==
    /\ build.pc = "adding"
    /\ \E i, j \in DOMAIN pending :
          /\ pending[i].metadata.title = pending[j].metadata.title
          /\ pending[i].metadata.chunk_index # pending[j].metadata.chunk_index
    /\ \E i, j \in DOMAIN pending : pending[j].metadata.title = pending[i].id

\* The block the claim gives result i: a header with its number and the title
\* of the result, then the content of the result.
Block(i) ==
    <<"S", "o", "u", "r", "c", "e", " ">> \o Str(i) \o <<" ", "(", "f", "r", "o", "m", " ", "'">>
        \o rlast.results[i].metadata.title \o <<"'", ")", ":", "\n">>
        \o rlast.results[i].content \o <<"\n">>

\* Where block i begins in the returned string: after the blocks before it
\* and one line feed after each of them.
RECURSIVE BlockOffset(_)
BlockOffset(i) == IF i = 1 THEN 0 ELSE BlockOffset(i - 1) + Len(Block(i - 1)) + 1

\* C18: when the search returns r >= 1 results, get_relevant_context returns
\* r blocks in the order of the results, one line feed between two blocks;
\* block i is numbered i, names the title of result i and carries its content.
C18_ContextBlocksInRankOrder ==
    (rlast.op = "context" /\ rlast.found >= 1) =>
        LET r == rlast.found
        IN  /\ ~rlast.raised
            /\ Len(rlast.out) = BlockOffset(r) + Len(Block(r))
            /\ \A i \in 1..r :
                  SubSeq(rlast.out, BlockOffset(i) + 1, BlockOffset(i) + Len(Block(i)))
                      = Block(i)
            /\ \A i \in 1..r - 1 : rlast.out[BlockOffset(i + 1)] = "\n"

\* get_relevant_context has returned for two results from two transcripts.
C18_Witness ==
    /\ rlast.op = "context"
    /\ rlast.found >= 2
    /\ rlast.results[1].metadata.title # rlast.results[2].metadata.title
    /\ ~rlast.raised

\* The collection after the entries are added to an empty one.
Inserted(entries) == ChromaAdd(<<>>, entries).collection

\* C17: when the process is killed during add_transcripts the collection
\* holds the entries of the batches added so far, and a setup_vector_store
\* call made after that on the same listing returns with the collection that a
\* build which was never interrupted leaves.
C17_RerunAfterInterruptCompletes ==
    [][/\ rlast'.op = "killed" =>
            collection' = Inserted(SubSeq(pending, 1, next_i))
       /\ (rlast'.op \in {"setup", "add"} /\ build'.pc = "returned"
              /\ build'.resumed) =>
            collection' = Inserted(Loaded[corpus].entries)]_vars

\* What remains of C17 when the call after the interruption is forced.
C17_ForcedRerunCompletes ==
    [][/\ rlast'.op = "killed" =>
            collection' = Inserted(SubSeq(pending, 1, next_i))
       /\ (rlast'.op \in {"setup", "add"} /\ build'.pc = "returned"
              /\ build'.resumed /\ build'.force) =>
            collection' = Inserted(Loaded[corpus].entries)]_vars

\* For each listing, the documents the loader yields from it, each with its
\* title and the chunks chunk_text makes of its content.
Documents ==
    [c \in 1..Len(Corpora) |->
        LET transcripts == load_all_transcripts(Corpora[c])
        IN  [d \in 1..Len(transcripts) |->
                [title |-> transcripts[d].title,
                 chunks |-> IF Loaded[c].hangs THEN <<>>
                            ELSE chunk_text(transcripts[d].content,
                                            DefaultChunkSize, DefaultOverlap).chunks]]]

\* The entries of the collection that hold chunk i (0-based) of document doc.
EntriesFor(doc, i) ==
    {j \in 1..Len(collection) :
        /\ collection[j].document = doc.chunks[i + 1]
        /\ collection[j].metadata.title = doc.title
        /\ collection[j].metadata.chunk_index = i
        /\ collection[j].metadata.total_chunks = Len(doc.chunks)}

\* setup_vector_store has returned from add_transcripts: the loader was
\* called and its documents gave at least one chunk.
SetupReturnedFromAdd == rlast.op = "add" /\ build.pc = "returned"

\* C21: when setup_vector_store returns after loading documents that give at
\* least one chunk, the collection holds exactly one entry for every chunk of
\* every loaded document, with the document's title, the chunk's 0-based
\* index and the document's chunk count as metadata, whatever builds, forced
\* rebuilds and interrupted builds came before.
C21_SetupIndexesEveryChunk ==
    SetupReturnedFromAdd =>
        \A d \in 1..Len(Documents[corpus]) :
            \A i \in 0..Len(Documents[corpus][d].chunks) - 1 :
                Cardinality(EntriesFor(Documents[corpus][d], i)) = 1

\* A forced setup_vector_store has returned from add_transcripts on a
\* listing of more than one batch, after a build of that listing was killed.
C21_Witness ==
    /\ SetupReturnedFromAdd
    /\ build.resumed
    /\ Len(collection) > batch_size
    /\ \E d \in 1..Len(Documents[corpus]) : Len(Documents[corpus][d].chunks) >= 1

\* C10: get_relevant_context does not raise and never returns the empty
\* string; it returns "No relevant context found." when the search finds
\* nothing, as it does on an empty collection.
C10_ContextOrSentinel ==
    rlast.op = "context" =>
        /\ ~rlast.raised
        /\ rlast.out # <<>>
        /\ rlast.found = 0 => rlast.out = NoContext
        /\ collection = <<>> => rlast.out = NoContext

\* get_relevant_context has just returned the sentinel on an empty collection.
C10_Witness ==
    /\ rlast.op = "context"
    /\ collection = <<>>
    /\ rlast.found = 0
    /\ rlast.out = NoContext

-----------------------------------------------------------------------------
(* Claims about SimpleVectorStore, under SpecStore.                        *)

\* What a new process would load from the store directory.
Persisted == LoadData(embeddings_file, metadata_file)

\* C7: an add_texts call that fails (the provider raises, or a file of the
\* store cannot be written) leaves the index as it was before the call: the
\* entries in memory and the entries a restart would load.
C7_FailedInsertChangesNothing ==
    [][(slast'.op = "add" /\ slast'.failed) =>
          /\ embeddings' = embeddings
          /\ metadata' = metadata
          /\ LoadData(embeddings_file', metadata_file') = Persisted]_vars

\* C13: a new SimpleVectorStore on the store directory would hold the
\* embeddings and the metadata that the running instance holds.
C13_RestartKeepsIndex == Persisted = <<embeddings, metadata>>

\* What remains of C13 while no save has failed.
C13_RestartWhileSavesSucceed == faults = 0 => Persisted = <<embeddings, metadata>>

\* C14: after clear_collection the store holds no embedding and no metadata,
\* every search returns [], and a new SimpleVectorStore on the directory
\* would load nothing; this also when the store was empty before the call.
C14_ClearDiscardsAll ==
    slast.op = "clear" =>
        /\ Len(embeddings) = 0
        /\ Len(metadata) = 0
        /\ Persisted = <<(<<>>), (<<>>)>>
        /\ \A query \in QueryPool, n_results \in 1..MaxK :
              Search(embeddings, metadata, query, n_results, <<>>)
                  = [raised |-> FALSE, results |-> <<>>]

\* clear_collection has just returned on a store that held saved entries.
C14_Witness ==
    /\ slast.op = "clear"
    /\ slast.count > 0
    /\ embeddings = <<>>
    /\ embeddings_file = Absent
    /\ metadata_file = Absent

\* C8: a search on a store with no embeddings returns [] and does not raise.
C8_SearchEmptyReturnsNothing ==
    (slast.op = "search" /\ embeddings = <<>>) =>
        slast.out = [raised |-> FALSE, results |-> <<>>]

\* A search has just returned [] on a store with no embeddings.
C8_Witness ==
    /\ slast.op = "search"
    /\ embeddings = <<>>
    /\ slast.out.results = <<>>
    /\ ~slast.out.raised

\* The similarities of the stored vectors to the last query.
LastSims == [i \in 1..Len(embeddings) |-> Cosine(Encode(slast.query), embeddings[i])]

\* res is min(k, n) of the stored entries, by non-increasing similarity, and
\* no entry left out is more similar than one returned.
IsTopK(res, sims, k) ==
    LET m == Len(res)
        SameSim(x, y) == ~SimLess(x, y) /\ ~SimLess(y, x)
    IN  /\ m = Min(k, Len(sims))
        /\ \A i \in 1..m - 1 : ~SimLess(res[i].similarity, res[i + 1].similarity)
        /\ \A i \in 1..m :
              Cardinality({j \in 1..m : SameSim(res[j].similarity, res[i].similarity)})
                <= Cardinality({j \in 1..Len(sims) : SameSim(sims[j], res[i].similarity)})
        /\ m > 0 =>
              Cardinality({j \in 1..Len(sims) : SimLess(res[m].similarity, sims[j])})
                = Cardinality({j \in 1..m : SimLess(res[m].similarity, res[j].similarity)})

C9_TopKWhileAligned ==
    (slast.op = "search" /\ Len(metadata) = Len(embeddings)) =>
        /\ ~slast.out.raised
        /\ IsTopK(slast.out.results, LastSims, slast.n_results)

\* The text that was inserted for a stored vector: the provider maps the
\* texts of TextPool to different vectors.
InsertedText(e) == CHOOSE t \in TextPool : Encode(t) = e

\* C19: every result of a search carries the text that was inserted for the
\* entry it ranks, and the metadata dict that was passed for that entry.
C19_ResultCarriesInsertedText ==
    (slast.op = "search" /\ ~slast.out.raised) =>
        \A i \in 1..Len(slast.out.results) :
            LET j == slast.ranked[i]
                res == slast.out.results[i]
            IN  /\ res.content = InsertedText(embeddings[j])
                /\ "title" \in DOMAIN metadata[j] => res.metadata = metadata[j]

\* What remains of C19: a result carries the inserted text when the caller
\* passed it as the 'content' of the entry's metadata, one dict per text.
C19_ContentFromMetadata ==
    (slast.op = "search" /\ ~slast.out.raised /\ Len(metadata) = Len(embeddings)) =>
        \A i \in 1..Len(slast.out.results) :
            LET j == slast.ranked[i]
            IN  "content" \in DOMAIN metadata[j] =>
                    slast.out.results[i].content = InsertedText(embeddings[j])

\* C20: the embeddings list and the metadata list are equally long, position
\* by position they describe the same inserted text, and no search raises.
C20_ListsAligned ==
    /\ Len(embeddings) = Len(metadata)
    /\ \A j \in 1..Len(embeddings) :
          (j <= Len(metadata) /\ "content" \in DOMAIN metadata[j]) =>
              metadata[j].content = InsertedText(embeddings[j])
    /\ slast.op = "search" => ~slast.out.raised

\* What remains of C20: while no save has failed, lists that are equally
\* long describe the same inserted texts position by position.
C20_AlignedWithoutFaults ==
    (faults = 0 /\ Len(embeddings) = Len(metadata)) =>
        \A j \in 1..Len(embeddings) :
            "content" \in DOMAIN metadata[j] =>
                metadata[j].content = InsertedText(embeddings[j])

====
